---- MODULE Spec2Model ----
(***************************************************************************)
(* ResponsiveService (shared/services/responsive.service.ts).             *)
(*                                                                         *)
(* The service derives breakpoint / device / orientation signals from     *)
(* media queries observed through the CDK BreakpointObserver, publishes   *)
(* a ResponsiveState snapshot, and mirrors the classification onto the    *)
(* class list of the <html> element.                                      *)
(*                                                                         *)
(* Environment model.  The viewport width, the orientation and the        *)
(* system colour scheme are live values: a media query evaluated now      *)
(* (BreakpointObserver.isMatched, window.matchMedia(q).matches) sees      *)
(* them.  The browser reports changes to registered MediaQueryList        *)
(* listeners in a later step of its own (ReportChanges).  Every           *)
(* BreakpointObserver.observe() stream emits its first value              *)
(* synchronously and debounces every later one with debounceTime(0), so   *)
(* each of the service's observables has a timer of its own, which        *)
(* fires in a task of its own (Deliver).  The timers all have delay 0,    *)
(* so they fire in the order they were armed: timers is a queue.          *)
(*                                                                         *)
(* Widths are kept in half pixels so that fractional CSS widths (767.5px) *)
(* are representable.                                                      *)
(***************************************************************************)
EXTENDS Integers, FiniteSets, Sequences, TLC

\* ---------------------------------------------------------------------
\* Bounds
\* ---------------------------------------------------------------------

\* number of environment changes (resize, rotation, colour scheme) in a run
MaxEvents == 2

\* number of environment changes in a run that starts in one of the
\* environments of EnvProfiles
EnvEvents == 1

\* number of words in a user agent string
MaxUaWords == 2

\* viewport widths of the model, in half pixels: 500, 767.5, 768, 1024,
\* 1280 and 1536 px, one in each band of the breakpoints and one in the
\* gap between the mobile and the tablet query
Widths == {1000, 1535, 1536, 2048, 2560, 3072}

\* the widths a service is constructed at: one in the mobile band (500 px),
\* one in the tablet band (768 px) and one in the desktop band (1280 px);
\* a resize reaches every width of Widths
ConstructionWidths == {1000, 1536, 2560}

\* ---------------------------------------------------------------------
\* TAILWIND_BREAKPOINTS and the device queries (pixels)
\* ---------------------------------------------------------------------

SmMin == 640
MdMin == 768
LgMin == 1024
XlMin == 1280
XxlMin == 1536
MobileMax == 767
TabletMax == 1023

VARIABLES
    isBrowser,      \* isPlatformBrowser(platformId)
    cdkIsBrowser,   \* cdkPlatform.isBrowser
    userAgent,      \* navigator.userAgent, a sequence of words
    ontouchstart,   \* 'ontouchstart' in window
    maxTouchPoints, \* navigator.maxTouchPoints
    hasMatchMedia,  \* window.matchMedia is a function
    budget,         \* environment changes the run may make
    width,          \* live viewport width, half pixels
    portrait,       \* live orientation
    dark,           \* live system colour scheme preference
    repWidth,       \* viewport state the browser last reported to listeners
    repPortrait,
    repDark,
    timers,         \* observables with an armed debounce timer
    pending,        \* value the armed timer will deliver
    sig,            \* last value emitted by each observable (the signals)
    state,          \* last snapshot emitted by state$
    classes,        \* class list of document.documentElement
    events,         \* environment changes so far
    raised,         \* constructing the service threw
    destroyed,      \* the injector that holds the service was destroyed
    last            \* the step that led here

vars == <<isBrowser, cdkIsBrowser, userAgent, ontouchstart, maxTouchPoints,
          hasMatchMedia, budget, width, portrait, dark, repWidth,
          repPortrait, repDark, timers, pending, sig, state, classes,
          events, raised, destroyed, last>>

\* ---------------------------------------------------------------------
\* Media queries
\* ---------------------------------------------------------------------

MinWidth(px, w) == w >= 2 * px
MaxWidth(px, w) == w <= 2 * px

\* a table with the pixel values of lg and xl exchanged
ThresholdSwapped(q) ==
    CASE q = "sm" -> SmMin
      [] q = "md" -> MdMin
      [] q = "lg" -> XlMin
      [] q = "xl" -> LgMin
      [] q = "2xl" -> XxlMin

Threshold(q) ==
    CASE q = "sm" -> SmMin
      [] q = "md" -> MdMin
      [] q = "lg" -> LgMin
      [] q = "xl" -> XlMin
      [] q = "2xl" -> XxlMin

\* MediaMatcher.matchMedia(q).matches for the media queries of the
\* service, in a viewport of width w and orientation p: the CDK falls back
\* to a matcher that matches nothing when its platform check says the code
\* is not running in a browser, or when window.matchMedia is missing
matchMedia(q, w, p) ==
    /\ cdkIsBrowser
    /\ hasMatchMedia
    /\ CASE q \in {"sm", "md", "lg", "xl", "2xl"} -> MinWidth(Threshold(q), w)
         [] q = "mobile" -> MaxWidth(MobileMax, w)
         [] q = "tablet" -> MinWidth(MdMin, w) /\ MaxWidth(TabletMax, w)
         [] q = "portrait" -> p
         [] q = "landscape" -> ~p

\* checkMatch(TAILWIND_BREAKPOINTS[q]) and checkMatch('(orientation: ...)')
checkMatch(q, w) == matchMedia(q, w, TRUE)
checkPortrait(p) == matchMedia("portrait", 0, p)
checkLandscape(p) == matchMedia("landscape", 0, p)

\* the names of the service's observables
BoolSubs == {"isSm", "isMd", "isLg", "isXl", "is2xl", "isMobile",
             "isTablet", "isDesktop", "isPortrait", "isLandscape"}
Subs == BoolSubs \cup {"currentBreakpoint"}

\* map() of currentBreakpoint$: the largest matching threshold wins
BreakpointMapSmallestFirst(m) ==
    IF m["sm"] THEN "sm"
    ELSE IF m["md"] THEN "md"
    ELSE IF m["lg"] THEN "lg"
    ELSE IF m["xl"] THEN "xl"
    ELSE IF m["2xl"] THEN "2xl"
    ELSE "xs"

BreakpointMap(m) ==
    IF m["2xl"] THEN "2xl"
    ELSE IF m["xl"] THEN "xl"
    ELSE IF m["lg"] THEN "lg"
    ELSE IF m["md"] THEN "md"
    ELSE IF m["sm"] THEN "sm"
    ELSE "xs"

\* result.breakpoints of breakpointObserver.observe([sm, md, lg, xl, 2xl])
BreakpointResult(w) ==
    [q \in {"sm", "md", "lg", "xl", "2xl"} |-> checkMatch(q, w)]

\* the media query observe() is called with, for each boolean observable;
\* isDesktop$ observes the same query string as isLg$
ObservedQuery(s) ==
    CASE s = "isSm" -> "sm"
      [] s = "isMd" -> "md"
      [] s = "isLg" -> "lg"
      [] s = "isXl" -> "xl"
      [] s = "is2xl" -> "2xl"
      [] s = "isMobile" -> "mobile"
      [] s = "isTablet" -> "tablet"
      [] s = "isDesktop" -> "lg"
      [] s = "isPortrait" -> "portrait"
      [] s = "isLandscape" -> "landscape"

\* the value observable s computes from a viewport state
Observed(s, w, p) ==
    IF s = "currentBreakpoint" THEN BreakpointMap(BreakpointResult(w))
    ELSE matchMedia(ObservedQuery(s), w, p)

\* The change listeners, in the order the browser calls them: the media
\* query lists in the order they were created (the order of the observe()
\* calls of the field initialisers), and for each the listeners in the
\* order the observables were subscribed (the toSignal() calls).
Listeners ==
    << <<"sm", "isSm">>, <<"sm", "currentBreakpoint">>,
       <<"md", "isMd">>, <<"md", "currentBreakpoint">>,
       <<"lg", "isLg">>, <<"lg", "isDesktop">>, <<"lg", "currentBreakpoint">>,
       <<"xl", "isXl">>, <<"xl", "currentBreakpoint">>,
       <<"2xl", "is2xl">>, <<"2xl", "currentBreakpoint">>,
       <<"mobile", "isMobile">>,
       <<"tablet", "isTablet">>,
       <<"portrait", "isPortrait">>,
       <<"landscape", "isLandscape">> >>

InQueue(queue, s) == \E i \in 1..Len(queue) : queue[i] = s

\* the timer queue after the listeners from position i on have been called
\* for a viewport change from <<w0, p0>> to <<w1, p1>>: a listener whose
\* query changed arms the timer of its observable unless it is armed already
RECURSIVE Arm(_, _, _, _, _, _)
Arm(queue, i, w0, p0, w1, p1) ==
    IF i > Len(Listeners) THEN queue
    ELSE LET q == Listeners[i][1]
             s == Listeners[i][2]
             changed == matchMedia(q, w0, p0) # matchMedia(q, w1, p1)
         IN Arm(IF changed /\ ~InQueue(queue, s) THEN Append(queue, s)
                ELSE queue,
                i + 1, w0, p0, w1, p1)

\* the observables a viewport change notifies
Notified(w0, p0, w1, p1) ==
    {Listeners[i][2] : i \in {j \in 1..Len(Listeners) :
        matchMedia(Listeners[j][1], w0, p0)
          # matchMedia(Listeners[j][1], w1, p1)}}

\* ---------------------------------------------------------------------
\* Detection helpers
\* ---------------------------------------------------------------------

\* String.prototype.toLowerCase on the words user agents are made of
toLowerCase(word) ==
    CASE word = "Windows" -> "windows"
      [] word = "Macintosh" -> "macintosh"
      [] word = "Mac" -> "mac"
      [] word = "Linux" -> "linux"
      [] word = "Android" -> "android"
      [] word = "iPhone" -> "iphone"
      [] word = "iPad" -> "ipad"
      [] word = "Chrome/120" -> "chrome/120"
      [] word = "Safari/537" -> "safari/537"
      [] word = "Firefox/121" -> "firefox/121"
      [] word = "Edg/120" -> "edg/120"
      [] word = "Darwin" -> "darwin"
      [] OTHER -> word

\* the patterns of detectBrowser and detectOS that occur in a lower-case
\* word; the patterns are matched case-sensitively, so a word that was not
\* lower-cased contains none
PatternsIn(word) ==
    CASE word = "windows" -> {"win"}
      [] word = "darwin" -> {"win"}
      [] word = "macintosh" -> {"mac"}
      [] word = "mac" -> {"mac"}
      [] word = "linux" -> {"linux"}
      [] word = "android" -> {"android"}
      [] word = "iphone" -> {"iphone"}
      [] word = "ipad" -> {"ipad"}
      [] word = "chrome/120" -> {"chrome"}
      [] word = "safari/537" -> {"safari"}
      [] word = "firefox/121" -> {"firefox"}
      [] word = "edg/120" -> {"edg/"}
      [] OTHER -> {}

\* ua.includes(pattern), ua = navigator.userAgent.toLowerCase()
includes(ua, pattern) ==
    \E i \in 1..Len(ua) : pattern \in PatternsIn(toLowerCase(ua[i]))

\* detectBrowser without the platform check of the CDK
detectBrowserUnguarded(ua) ==
    IF includes(ua, "edg/") THEN "edge"
    ELSE IF includes(ua, "chrome") THEN "chrome"
    ELSE IF includes(ua, "firefox") THEN "firefox"
    ELSE IF includes(ua, "safari") /\ ~includes(ua, "chrome") THEN "safari"
    ELSE "other"

\* detectBrowser with the chrome test before the edge test
detectBrowserChromeFirst(ua) ==
    IF ~cdkIsBrowser THEN "other"
    ELSE IF includes(ua, "chrome") THEN "chrome"
    ELSE IF includes(ua, "edg/") THEN "edge"
    ELSE IF includes(ua, "firefox") THEN "firefox"
    ELSE IF includes(ua, "safari") /\ ~includes(ua, "chrome") THEN "safari"
    ELSE "other"

detectBrowser(ua) ==
    IF ~cdkIsBrowser THEN "other"
    ELSE IF includes(ua, "edg/") THEN "edge"
    ELSE IF includes(ua, "chrome") THEN "chrome"
    ELSE IF includes(ua, "firefox") THEN "firefox"
    ELSE IF includes(ua, "safari") /\ ~includes(ua, "chrome") THEN "safari"
    ELSE "other"

\* detectOS without the final return: no pattern, no value
detectOSNoDefault(ua) ==
    IF ~cdkIsBrowser THEN "other"
    ELSE IF includes(ua, "win") THEN "windows"
    ELSE IF includes(ua, "mac") THEN "macos"
    ELSE IF includes(ua, "linux") THEN "linux"
    ELSE IF includes(ua, "iphone") \/ includes(ua, "ipad") THEN "ios"
    ELSE IF includes(ua, "android") THEN "android"
    ELSE "undefined"

\* detectOS with the mobile systems tested before the desktop systems
detectOSMobileFirst(ua) ==
    IF ~cdkIsBrowser THEN "other"
    ELSE IF includes(ua, "iphone") \/ includes(ua, "ipad") THEN "ios"
    ELSE IF includes(ua, "android") THEN "android"
    ELSE IF includes(ua, "win") THEN "windows"
    ELSE IF includes(ua, "mac") THEN "macos"
    ELSE IF includes(ua, "linux") THEN "linux"
    ELSE "other"

detectOS(ua) ==
    IF ~cdkIsBrowser THEN "other"
    ELSE IF includes(ua, "win") THEN "windows"
    ELSE IF includes(ua, "mac") THEN "macos"
    ELSE IF includes(ua, "linux") THEN "linux"
    ELSE IF includes(ua, "iphone") \/ includes(ua, "ipad") THEN "ios"
    ELSE IF includes(ua, "android") THEN "android"
    ELSE "other"

\* a detection without the platform check of the CDK
detectTouchUnguarded == ontouchstart \/ maxTouchPoints > 0

detectTouch ==
    IF ~cdkIsBrowser THEN FALSE
    ELSE ontouchstart \/ maxTouchPoints > 0

\* a detection that knows no tablet
detectPlatformNoTablet(w) ==
    IF checkMatch("lg", w) THEN "desktop" ELSE "mobile"

detectPlatform(w) ==
    IF checkMatch("lg", w) THEN "desktop"
    ELSE IF checkMatch("md", w) THEN "tablet"
    ELSE "mobile"

\* window.matchMedia('(prefers-color-scheme: dark)').matches
getPrefersDark(d) == d

\* map() of state$: the breakpoint is the value currentBreakpoint$ emitted,
\* every other field is read from the environment while the map runs
Snapshot(breakpoint, w, p, d) ==
    LET mobile == ~checkMatch("md", w)
        tablet == checkMatch("md", w) /\ ~checkMatch("lg", w)
        desktop == checkMatch("lg", w)
    IN [breakpoint |-> breakpoint,
        isMobile |-> mobile,
        isTablet |-> tablet,
        isDesktop |-> desktop,
        isPortrait |-> isBrowser /\ checkPortrait(p),
        isLandscape |-> isBrowser /\ checkLandscape(p),
        isTouchEnabled |-> isBrowser /\ detectTouch,
        platform |-> IF desktop THEN "desktop"
                     ELSE IF tablet THEN "tablet" ELSE "mobile",
        browser |-> detectBrowser(userAgent),
        os |-> detectOS(userAgent),
        prefersDark |-> isBrowser /\ getPrefersDark(d)]

\* ---------------------------------------------------------------------
\* The class list of the root element
\* ---------------------------------------------------------------------

BpClasses == {"bp-xs", "bp-sm", "bp-md", "bp-lg", "bp-xl", "bp-2xl"}
DeviceClasses == {"mobile", "tablet", "desktop"}
OrientationClasses == {"orientation-portrait", "orientation-landscape"}
ColorSchemeClasses == {"prefers-dark", "prefers-light"}
PlatformClasses == {"platform-mobile", "platform-tablet", "platform-desktop"}
BrowserClasses == {"browser-chrome", "browser-firefox", "browser-safari",
                   "browser-edge", "browser-other"}
OsClasses == {"os-windows", "os-macos", "os-linux", "os-ios", "os-android",
              "os-other"}
TouchClasses == {"touch-enabled", "touch-disabled"}

\* classList.toggle(name, force)
toggle(cl, name, force) == IF force THEN cl \cup {name} ELSE cl \ {name}

\* a subscriber that adds the new class without removing the old ones
applyBreakpointClassAddOnly(cl, bp) == cl \cup {"bp-" \o bp}

\* a subscriber that also re-applies the platform class of the breakpoint
applyBreakpointClassWithPlatform(cl, bp) ==
    ((cl \ BpClasses) \ PlatformClasses)
        \cup {"bp-" \o bp,
              IF bp \in {"lg", "xl", "2xl"} THEN "platform-desktop"
              ELSE IF bp = "md" THEN "platform-tablet"
              ELSE "platform-mobile"}

\* a subscriber that writes the class of the first emission only
applyBreakpointClassKeepFirst(cl, bp) ==
    IF cl \cap BpClasses # {} THEN cl ELSE cl \cup {"bp-" \o bp}

\* subscriber of currentBreakpoint$ in applyClassesToHtml
applyBreakpointClass(cl, bp) == (cl \ BpClasses) \cup {"bp-" \o bp}

\* subscriber of isPortrait$ in applyClassesToHtml
applyOrientationClasses(cl, match) ==
    toggle(toggle(cl, "orientation-portrait", match),
           "orientation-landscape", ~match)

\* a listener that adds the class of the new scheme and leaves the other
updateColorSchemeAddOnly(cl, matches) ==
    cl \cup {IF matches THEN "prefers-dark" ELSE "prefers-light"}

\* a listener that assigns className instead of toggling two classes
updateColorSchemeReplaceAll(cl, matches) ==
    {IF matches THEN "prefers-dark" ELSE "prefers-light"}

\* the change listener of the colour scheme query
updateColorScheme(cl, matches) ==
    toggle(toggle(cl, "prefers-dark", matches), "prefers-light", ~matches)

\* subscriber of a boolean observable in applyClassesToHtml
applyBooleanClass(cl, s, match) ==
    CASE s = "isMobile" -> toggle(cl, "mobile", match)
      [] s = "isTablet" -> toggle(cl, "tablet", match)
      [] s = "isDesktop" -> toggle(cl, "desktop", match)
      [] s = "isPortrait" -> applyOrientationClasses(cl, match)
      [] OTHER -> cl

\* applyClassesToHtml on a root element whose class list is cl; v holds
\* the values the observables replay to the new subscribers.  Without
\* window.matchMedia the call in the last block throws, and the classes
\* written before it stay.
applyClassesToHtml(cl, v, w, d) ==
    LET c1 == applyBreakpointClass(cl, v["currentBreakpoint"])
        c2 == applyBooleanClass(c1, "isMobile", v["isMobile"])
        c3 == applyBooleanClass(c2, "isTablet", v["isTablet"])
        c4 == applyBooleanClass(c3, "isDesktop", v["isDesktop"])
        c5 == applyBooleanClass(c4, "isPortrait", v["isPortrait"])
        c6 == c5 \cup {"platform-" \o detectPlatform(w)}
        c7 == c6 \cup {"browser-" \o detectBrowser(userAgent)}
        c8 == c7 \cup {"os-" \o detectOS(userAgent)}
        c9 == toggle(toggle(c8, "touch-enabled", detectTouch),
                     "touch-disabled", ~detectTouch)
    IN IF hasMatchMedia THEN updateColorScheme(c9, d) ELSE c9

\* ---------------------------------------------------------------------
\* Construction
\* ---------------------------------------------------------------------

\* the environments a service is constructed in: a desktop browser in
\* landscape, a phone browser in portrait, and server-side rendering
Environments ==
    { [isBrowser |-> TRUE, cdkIsBrowser |-> TRUE,
       userAgent |-> <<"Windows", "Chrome/120", "Safari/537">>,
       ontouchstart |-> FALSE, maxTouchPoints |-> 0, portrait |-> FALSE,
       hasMatchMedia |-> TRUE],
      [isBrowser |-> TRUE, cdkIsBrowser |-> TRUE,
       userAgent |-> <<"iPhone", "like", "Mac", "Safari/537">>,
       ontouchstart |-> TRUE, maxTouchPoints |-> 1, portrait |-> TRUE,
       hasMatchMedia |-> TRUE],
      [isBrowser |-> FALSE, cdkIsBrowser |-> FALSE,
       userAgent |-> <<>>,
       ontouchstart |-> FALSE, maxTouchPoints |-> 0, portrait |-> FALSE,
       hasMatchMedia |-> FALSE] }

NoStep == [op |-> "construct", sub |-> "", emitted |-> FALSE]

\* the value of the state signal after state$ failed: reading it throws
ErrorState == [error |-> TRUE]

\* the constructor: applyClassesToHtml runs in a browser only
constructorUnguarded(cl, v, w, d) == applyClassesToHtml(cl, v, w, d)

constructor(cl, v, w, d) ==
    IF isBrowser THEN applyClassesToHtml(cl, v, w, d) ELSE cl

\* The state after the field initialisers and the constructor have run in
\* an environment of envs, at a width of widths, with n environment
\* changes to come.  In a browser without window.matchMedia the map of
\* state$ throws in getPrefersDark (the state signal holds the error) and
\* the constructor throws in applyClassesToHtml.
InitIn(envs, widths, n) ==
    /\ \E e \in envs :
          /\ isBrowser = e.isBrowser
          /\ cdkIsBrowser = e.cdkIsBrowser
          /\ userAgent = e.userAgent
          /\ ontouchstart = e.ontouchstart
          /\ maxTouchPoints = e.maxTouchPoints
          /\ hasMatchMedia = e.hasMatchMedia
          /\ portrait = e.portrait
    /\ budget = n
    /\ width \in widths
    /\ dark \in BOOLEAN
    /\ repWidth = width
    /\ repPortrait = portrait
    /\ repDark = dark
    /\ timers = <<>>
    /\ sig = [s \in Subs |-> Observed(s, width, portrait)]
    /\ pending = sig
    /\ raised = (isBrowser /\ ~hasMatchMedia)
    /\ state = IF raised THEN ErrorState
               ELSE Snapshot(sig["currentBreakpoint"], width, portrait, dark)
    /\ classes = constructor({}, sig, width, dark)
    /\ events = 0
    /\ destroyed = FALSE
    /\ last = NoStep

Init == InitIn(Environments, ConstructionWidths, MaxEvents)

\* ---------------------------------------------------------------------
\* The environment changes
\* ---------------------------------------------------------------------

static == <<isBrowser, cdkIsBrowser, userAgent, ontouchstart, maxTouchPoints,
            hasMatchMedia, budget, raised>>

\* there is a window whose viewport and colour scheme can change, and a
\* service was constructed in it
hasWindow == (isBrowser \/ cdkIsBrowser) /\ ~raised

Resize(w) ==
    /\ hasWindow
    /\ events < budget
    /\ w # width
    /\ width' = w
    /\ events' = events + 1
    /\ last' = [op |-> "resize", sub |-> "", emitted |-> FALSE]
    /\ UNCHANGED <<static, portrait, dark, repWidth, repPortrait, repDark,
                   timers, pending, sig, state, classes, destroyed>>

Rotate ==
    /\ hasWindow
    /\ events < budget
    /\ portrait' = ~portrait
    /\ events' = events + 1
    /\ last' = [op |-> "rotate", sub |-> "", emitted |-> FALSE]
    /\ UNCHANGED <<static, width, dark, repWidth, repPortrait, repDark,
                   timers, pending, sig, state, classes, destroyed>>

ToggleColorScheme ==
    /\ hasWindow
    /\ events < budget
    /\ dark' = ~dark
    /\ events' = events + 1
    /\ last' = [op |-> "scheme", sub |-> "", emitted |-> FALSE]
    /\ UNCHANGED <<static, width, portrait, repWidth, repPortrait, repDark,
                   timers, pending, sig, state, classes, destroyed>>

\* The browser evaluates the registered media queries and dispatches a
\* change event to each whose result changed.  The listeners of the CDK
\* feed combineLatest + debounceTime(0): the timer of the observable is
\* (re)armed with the combined result.  The listener of the colour scheme
\* query, registered by applyClassesToHtml, runs updateColorScheme at once.
\* The listeners of the CDK are removed when the BreakpointObserver is
\* destroyed; nothing removes the listener of the colour scheme query.
ReportChanges ==
    /\ <<width, portrait, dark>> # <<repWidth, repPortrait, repDark>>
    /\ repWidth' = width
    /\ repPortrait' = portrait
    /\ repDark' = dark
    /\ timers' = IF destroyed THEN timers
                  ELSE Arm(timers, 1, repWidth, repPortrait, width, portrait)
    /\ LET notified == IF destroyed THEN {}
                       ELSE Notified(repWidth, repPortrait, width, portrait)
       IN pending' = [s \in Subs |->
                        IF s \in notified THEN Observed(s, width, portrait)
                        ELSE pending[s]]
    /\ classes' = IF isBrowser /\ dark # repDark
                  THEN updateColorScheme(classes, dark)
                  ELSE classes
    /\ last' = [op |-> "report", sub |-> "",
                emitted |-> isBrowser /\ dark # repDark]
    /\ UNCHANGED <<static, width, portrait, dark, sig, state, events,
                   destroyed>>

\* Observable s emits v to its subscribers, which see the signals, the
\* snapshot and the class list of st.  distinctUntilChanged drops a value
\* equal to the last one emitted; otherwise the signal is set, the class
\* subscriber of applyClassesToHtml runs, and for currentBreakpoint$
\* state$ maps the value to a new snapshot.
Emit(st, s, v) ==
    IF v = st.sig[s] THEN st
    ELSE [sig |-> [st.sig EXCEPT ![s] = v],
          state |-> IF s = "currentBreakpoint"
                    THEN Snapshot(v, width, portrait, dark)
                    ELSE st.state,
          classes |-> IF ~isBrowser THEN st.classes
                      ELSE IF s = "currentBreakpoint"
                      THEN applyBreakpointClass(st.classes, v)
                      ELSE applyBooleanClass(st.classes, s, v)]

\* The oldest debounce timer fires.
Deliver ==
    /\ timers # <<>>
    /\ LET s == Head(timers)
           r == Emit([sig |-> sig, state |-> state, classes |-> classes],
                     s, pending[s])
       IN /\ timers' = Tail(timers)
          /\ pending' = pending
          /\ sig' = r.sig
          /\ state' = r.state
          /\ classes' = r.classes
          /\ last' = [op |-> "deliver", sub |-> s,
                      emitted |-> pending[s] # sig[s]]
    /\ UNCHANGED <<static, width, portrait, dark, repWidth, repPortrait,
                   repDark, events, destroyed>>

\* debounceTime emits the value it holds when its source completes
RECURSIVE Flush(_, _)
Flush(queue, st) ==
    IF queue = <<>> THEN st
    ELSE Flush(Tail(queue), Emit(st, Head(queue), pending[Head(queue)]))

\* The injector that holds the service is destroyed (a test bed is reset,
\* the application is torn down).  The service has no teardown of its own.
\* The BreakpointObserver completes every observed query: the armed timers
\* flush their values and the media query listeners of the CDK are removed.
Destroy ==
    /\ ~destroyed
    /\ ~raised
    /\ destroyed' = TRUE
    /\ timers' = <<>>
    /\ pending' = pending
    /\ LET r == Flush(timers,
                      [sig |-> sig, state |-> state, classes |-> classes])
       IN /\ sig' = r.sig
          /\ state' = r.state
          /\ classes' = r.classes
    /\ last' = [op |-> "destroy", sub |-> "", emitted |-> FALSE]
    /\ UNCHANGED <<static, width, portrait, dark, repWidth, repPortrait,
                   repDark, events>>

Next ==
    \/ \E w \in Widths : Resize(w)
    \/ Rotate
    \/ ToggleColorScheme
    \/ ReportChanges
    \/ Deliver

Spec == Init /\ [][Next]_vars

\* ---------------------------------------------------------------------
\* Construction in every environment
\* ---------------------------------------------------------------------

\* the words navigator.userAgent is made of
UaWords == <<"Windows", "Mac", "Linux", "Android", "iPhone", "iPad",
             "Chrome/120", "Safari/537", "Firefox/121", "Edg/120">>

\* the user agent strings of at most MaxUaWords words
UserAgents ==
    {SelectSeq(UaWords, LAMBDA x : x \in S) :
        S \in {T \in SUBSET {UaWords[i] : i \in 1..Len(UaWords)} :
                  Cardinality(T) <= MaxUaWords}}

\* the user agent of the environments that vary the capabilities
AndroidChrome == <<"Linux", "Android", "Chrome/120">>

\* Environments that vary the user agent (a browser, or a server that has
\* a navigator object all the same), and environments that vary the
\* capabilities: the two interactivity checks, the touch flags (a missing
\* maxTouchPoints compares like 0) and window.matchMedia.
EnvProfiles ==
    {[isBrowser |-> b, cdkIsBrowser |-> b, userAgent |-> ua,
      ontouchstart |-> FALSE, maxTouchPoints |-> 0, portrait |-> FALSE,
      hasMatchMedia |-> b] : b \in BOOLEAN, ua \in UserAgents}
    \cup
    {[isBrowser |-> b, cdkIsBrowser |-> c, userAgent |-> AndroidChrome,
      ontouchstart |-> t, maxTouchPoints |-> n, portrait |-> FALSE,
      hasMatchMedia |-> m] :
        b \in BOOLEAN, c \in BOOLEAN, t \in BOOLEAN, n \in 0..1,
        m \in BOOLEAN}

\* the width a service of EnvProfiles is constructed at: 768 px
EnvWidths == {1536}

InitEnv == InitIn(EnvProfiles, EnvWidths, EnvEvents)

SpecEnv == InitEnv /\ [][Next]_vars

\* ---------------------------------------------------------------------
\* Teardown
\* ---------------------------------------------------------------------

InitTeardown == InitIn(Environments, Widths, EnvEvents)

NextTeardown ==
    \/ Next
    \/ Destroy

SpecTeardown == InitTeardown /\ [][NextTeardown]_vars

\* ---------------------------------------------------------------------
\* Construction on a root element that carries the classes of an earlier
\* instance
\* ---------------------------------------------------------------------

\* After the injector was destroyed a new one creates the service again
\* (the next test of a suite): the field initialisers subscribe to new
\* observables, which emit the live values at once, and the constructor
\* runs applyClassesToHtml on the same document.documentElement.
Recreate ==
    /\ destroyed
    /\ ~raised
    /\ destroyed' = FALSE
    /\ timers' = <<>>
    /\ sig' = [s \in Subs |-> Observed(s, width, portrait)]
    /\ pending' = sig'
    /\ state' = Snapshot(sig'["currentBreakpoint"], width, portrait, dark)
    /\ classes' = constructor(classes, sig', width, dark)
    /\ last' = [op |-> "recreate", sub |-> "", emitted |-> FALSE]
    /\ UNCHANGED <<static, width, portrait, dark, repWidth, repPortrait,
                   repDark, events>>

InitRecreate == InitIn(Environments, ConstructionWidths, EnvEvents)

NextRecreate ==
    \/ NextTeardown
    \/ Recreate

SpecRecreate == InitRecreate /\ [][NextRecreate]_vars

\* ---------------------------------------------------------------------
\* Resizes inside one band
\* ---------------------------------------------------------------------

\* two widths of the sm band: 640 px and 767.5 px
BandWidths == {1280, 1535}

InitBand == InitIn(Environments, BandWidths, MaxEvents)

NextBand ==
    \/ \E w \in BandWidths : Resize(w)
    \/ Rotate
    \/ ToggleColorScheme
    \/ ReportChanges
    \/ Deliver

SpecBand == InitBand /\ [][NextBand]_vars

\* ---------------------------------------------------------------------
\* The public signals
\* ---------------------------------------------------------------------

isSm == sig["isSm"]
isMd == sig["isMd"]
isLg == sig["isLg"]
isXl == sig["isXl"]
is2xl == sig["is2xl"]
isMobile == sig["isMobile"]
isTablet == sig["isTablet"]
isDesktop == sig["isDesktop"]
isPortrait == sig["isPortrait"]
isLandscape == sig["isLandscape"]
currentBreakpoint == sig["currentBreakpoint"]

\* the computed signals: state()?.field ?? default
platform == IF "platform" \in DOMAIN state THEN state.platform ELSE "desktop"
browser == IF "browser" \in DOMAIN state THEN state.browser ELSE "other"
os == IF "os" \in DOMAIN state THEN state.os ELSE "other"

\* both interactivity checks say the code runs in a browser
Interactive == isBrowser /\ cdkIsBrowser

\* both interactivity checks say the code does not run in a browser
NonInteractive == ~isBrowser /\ ~cdkIsBrowser

\* every change of the environment has been reported and every armed
\* timer has fired
Quiescent ==
    /\ timers = <<>>
    /\ <<width, portrait, dark>> = <<repWidth, repPortrait, repDark>>

ExactlyOne(a, b, c) ==
    \/ a /\ ~b /\ ~c
    \/ ~a /\ b /\ ~c
    \/ ~a /\ ~b /\ c

\* ---------------------------------------------------------------------
\* Properties
\* ---------------------------------------------------------------------

\* C1: in an interactive environment, once every pending notification is
\* delivered, currentBreakpoint() is the band of the viewport width:
\* 2xl from 1536px, xl from 1280px, lg from 1024px, md from 768px,
\* sm from 640px, xs below; the largest matching threshold wins.
C1_BreakpointOfWidth ==
    (Interactive /\ Quiescent) =>
        currentBreakpoint =
            (IF width >= 2 * 1536 THEN "2xl"
             ELSE IF width >= 2 * 1280 THEN "xl"
             ELSE IF width >= 2 * 1024 THEN "lg"
             ELSE IF width >= 2 * 768 THEN "md"
             ELSE IF width >= 2 * 640 THEN "sm"
             ELSE "xs")

\* a resize into the lg band (1024px, where sm, md and lg all match) has
\* been delivered completely
C1_Witness ==
    /\ Interactive
    /\ Quiescent
    /\ last = [op |-> "deliver", sub |-> "isTablet", emitted |-> TRUE]
    /\ width = 2 * 1024
    /\ currentBreakpoint = "lg"

\* C2: in an interactive environment, once every pending notification is
\* delivered, exactly one of isMobile(), isTablet(), isDesktop() is true,
\* and it is the one of the band of the width (mobile below 768px, tablet
\* from 768px and below 1024px, desktop from 1024px), fractional widths
\* included.
C2_DeviceOfWidth ==
    (Interactive /\ Quiescent) =>
        /\ ExactlyOne(isMobile, isTablet, isDesktop)
        /\ isMobile <=> width < 2 * 768
        /\ isTablet <=> (width >= 2 * 768 /\ width < 2 * 1024)
        /\ isDesktop <=> width >= 2 * 1024

\* C3: in every state of every environment exactly one of isMobile(),
\* isTablet(), isDesktop() is true, and exactly one of state().isMobile,
\* state().isTablet, state().isDesktop is true.
C3_ExactlyOneDevice ==
    /\ ExactlyOne(isMobile, isTablet, isDesktop)
    /\ ExactlyOne(state.isMobile, state.isTablet, state.isDesktop)

\* C4: in every snapshot published by state() the breakpoint and the device
\* booleans agree: lg, xl or 2xl iff isDesktop, md iff isTablet, xs or sm
\* iff isMobile.
C4_SnapshotAgrees ==
    /\ state.breakpoint \in {"lg", "xl", "2xl"} <=> state.isDesktop
    /\ state.breakpoint = "md" <=> state.isTablet
    /\ state.breakpoint \in {"xs", "sm"} <=> state.isMobile

\* C5: a consumer never observes a torn state: at no point do the device
\* accessors and currentBreakpoint() name different width bands.
C5_NeverTorn ==
    Interactive =>
        /\ isMobile => currentBreakpoint \in {"xs", "sm"}
        /\ isTablet => currentBreakpoint = "md"
        /\ isDesktop => currentBreakpoint \in {"lg", "xl", "2xl"}

\* C6: in an interactive environment exactly one of the six bp-* classes is
\* on the root element, after construction and after any sequence of
\* breakpoint changes.
C6_OneBreakpointClass ==
    Interactive => Cardinality(classes \cap BpClasses) = 1

\* a breakpoint change has just been written to the root element
C6_Witness ==
    /\ Interactive
    /\ last = [op |-> "deliver", sub |-> "currentBreakpoint",
               emitted |-> TRUE]
    /\ "bp-" \o currentBreakpoint \in classes

\* C7: after the system colour scheme changes (light to dark or dark to
\* light) and the change has been notified, state().prefersDark is the new
\* preference.
C7_SnapshotPrefersDark ==
    (Interactive /\ Quiescent) => state.prefersDark = dark

\* C8: a snapshot is produced on every change of an underlying signal:
\* after an orientation flip has been delivered, state().isPortrait and
\* state().isLandscape equal isPortrait() and isLandscape().
C8_SnapshotOrientation ==
    (Interactive /\ Quiescent) =>
        /\ state.isPortrait = isPortrait
        /\ state.isLandscape = isLandscape

\* C9: in an interactive environment exactly one of prefers-dark and
\* prefers-light is on the root element in every state, and after each
\* colour scheme change notification it is prefers-dark iff the system
\* preference is dark.
C9_OneColorSchemeClass ==
    Interactive =>
        /\ Cardinality(classes \cap ColorSchemeClasses) = 1
        /\ (last.op = "report" /\ last.emitted) =>
               ("prefers-dark" \in classes <=> dark)

\* a change to dark has just been notified
C9_Witness ==
    /\ Interactive
    /\ last.op = "report"
    /\ last.emitted
    /\ dark
    /\ "prefers-dark" \in classes

\* the step in which the colour scheme listener is called
ColorSchemeNotification ==
    /\ isBrowser
    /\ dark # repDark
    /\ repDark' = dark

\* C10: a colour scheme change notification changes only the prefers-dark
\* and prefers-light classes; every other class of the root element is
\* left as it is.
C10_ColorSchemeFrame ==
    [][ColorSchemeNotification =>
         classes' \ ColorSchemeClasses = classes \ ColorSchemeClasses]_vars

\* a colour scheme change has just been notified on a root element that
\* carries breakpoint, device, orientation, platform, browser, os and
\* touch classes
C10_Witness ==
    /\ Interactive
    /\ last.op = "report"
    /\ last.emitted
    /\ {"bp-md", "tablet", "orientation-portrait", "platform-mobile",
        "browser-safari", "os-macos", "touch-enabled", "prefers-dark"}
          \subseteq classes

\* C11: in a non-interactive evaluation the platform() accessor and
\* state().platform are desktop.
C11_ServerPlatformDesktop ==
    NonInteractive => (platform = "desktop" /\ state.platform = "desktop")

\* the words that contain a pattern when case is ignored
WordsWith(pattern) ==
    CASE pattern = "edg/" -> {"Edg/120"}
      [] pattern = "chrome" -> {"Chrome/120"}
      [] pattern = "firefox" -> {"Firefox/121"}
      [] pattern = "safari" -> {"Safari/537"}
      [] pattern = "win" -> {"Windows", "Darwin"}
      [] pattern = "mac" -> {"Mac", "Macintosh"}
      [] pattern = "linux" -> {"Linux"}
      [] pattern = "iphone" -> {"iPhone"}
      [] pattern = "ipad" -> {"iPad"}
      [] pattern = "android" -> {"Android"}

\* the identifier string contains the pattern, case ignored
Mentions(pattern) ==
    \E i \in 1..Len(userAgent) : userAgent[i] \in WordsWith(pattern)

\* C12: in a non-interactive evaluation isPortrait, isLandscape,
\* isTouchEnabled and prefersDark are false in the snapshot, isPortrait()
\* and isLandscape() are false, and browser() and os() are other, whatever
\* the identifier string and the capability flags are.
C12_ServerDefaults ==
    NonInteractive =>
        /\ ~state.isPortrait /\ ~state.isLandscape
        /\ ~state.isTouchEnabled /\ ~state.prefersDark
        /\ ~isPortrait /\ ~isLandscape
        /\ state.browser = "other" /\ state.os = "other"
        /\ browser = "other" /\ os = "other"

\* a service constructed outside a browser although the ambient objects
\* report a Chrome on Android with touch input and a dark preference
C12_Witness ==
    /\ NonInteractive
    /\ userAgent = AndroidChrome
    /\ ontouchstart
    /\ maxTouchPoints = 1
    /\ dark
    /\ last = NoStep
    /\ browser = "other"

\* C13: constructing the service and reading its accessors never raises an
\* error, for every combination of environment capabilities.
C13_NeverRaises ==
    /\ ~raised
    /\ "breakpoint" \in DOMAIN state

\* the sets the fields of ResponsiveState are declared with
ResponsiveState ==
    [breakpoint : {"xs", "sm", "md", "lg", "xl", "2xl"},
     isMobile : BOOLEAN, isTablet : BOOLEAN, isDesktop : BOOLEAN,
     isPortrait : BOOLEAN, isLandscape : BOOLEAN, isTouchEnabled : BOOLEAN,
     platform : {"mobile", "tablet", "desktop"},
     browser : {"chrome", "firefox", "safari", "edge", "other"},
     os : {"windows", "macos", "linux", "ios", "android", "other"},
     prefersDark : BOOLEAN]

\* C14: from the moment construction finishes state() is never absent and
\* each of its fields holds a value of its declared set, so platform(),
\* browser() and os() read the snapshot and never their fallback.
C14_StateDefined ==
    ~raised =>
        /\ state \in ResponsiveState
        /\ platform = state.platform
        /\ browser = state.browser
        /\ os = state.os

\* a snapshot published by a breakpoint change
C14_Witness ==
    /\ ~raised
    /\ last = [op |-> "deliver", sub |-> "currentBreakpoint",
               emitted |-> TRUE]
    /\ state.breakpoint = "sm"
    /\ platform = "mobile"

\* the browser the claimed precedence gives the identifier string
ExpectedBrowser ==
    IF Mentions("edg/") THEN "edge"
    ELSE IF Mentions("chrome") THEN "chrome"
    ELSE IF Mentions("firefox") THEN "firefox"
    ELSE IF Mentions("safari") THEN "safari"
    ELSE "other"

\* C15: in an interactive environment the browser follows the precedence
\* edge > chrome > firefox > safari over the lower-cased identifier string,
\* and is other when none of the patterns occurs.
C15_BrowserPrecedence ==
    Interactive =>
        /\ "browser-" \o ExpectedBrowser \in classes
        /\ ~raised => (state.browser = ExpectedBrowser
                       /\ browser = ExpectedBrowser)

\* an identifier string with both "Chrome" and "Edg/" resolved to edge
C15_Witness ==
    /\ Interactive
    /\ ~raised
    /\ userAgent = <<"Chrome/120", "Edg/120">>
    /\ browser = "edge"
    /\ "browser-edge" \in classes

\* C16: every identifier string that contains "iphone" resolves to ios in
\* an interactive environment, also when it contains "mac".
C16_IphoneIsIos ==
    (Interactive /\ ~raised /\ Mentions("iphone")) =>
        (state.os = "ios" /\ os = "ios" /\ "os-ios" \in classes)

\* the system the claimed precedence gives the identifier string
ExpectedOS ==
    IF Mentions("win") THEN "windows"
    ELSE IF Mentions("mac") THEN "macos"
    ELSE IF Mentions("linux") THEN "linux"
    ELSE IF Mentions("iphone") \/ Mentions("ipad") THEN "ios"
    ELSE IF Mentions("android") THEN "android"
    ELSE "other"

\* C17: in an interactive environment the operating system is the first
\* of windows, macos, linux, ios, android whose pattern occurs in the
\* lower-cased identifier string, and other when none occurs.
C17_OSPrecedence ==
    Interactive =>
        /\ "os-" \o ExpectedOS \in classes
        /\ ~raised => (state.os = ExpectedOS /\ os = ExpectedOS)

\* an identifier string with both "Linux" and "Android" resolved to linux
C17_Witness ==
    /\ Interactive
    /\ ~raised
    /\ userAgent = <<"Linux", "Android">>
    /\ os = "linux"
    /\ "os-linux" \in classes

\* the classes applyClassesToHtml writes once
StaticClasses ==
    PlatformClasses \cup BrowserClasses \cup OsClasses \cup TouchClasses

C19_ServerNoClasses ==
    ~isBrowser => classes = {}

\* a breakpoint change was delivered to a service constructed with
\* isPlatformBrowser false
C19_Witness ==
    /\ ~isBrowser
    /\ last = [op |-> "deliver", sub |-> "currentBreakpoint",
               emitted |-> TRUE]
    /\ state.breakpoint # "md"
    /\ classes = {}

\* C20: after the service is destroyed no listener of the instance is
\* registered any more: a later environment change no longer modifies the
\* class list of the root element.
C20_TeardownUnsubscribes ==
    [][destroyed => classes' = classes]_vars

\* C21: where orientation queries are supported exactly one of
\* isPortrait() and isLandscape() is true, and exactly one of
\* state().isPortrait and state().isLandscape; in a non-interactive
\* environment all four are false.
C21_ExactlyOneOrientation ==
    /\ Interactive =>
          /\ isPortrait # isLandscape
          /\ state.isPortrait # state.isLandscape
    /\ NonInteractive =>
          /\ ~isPortrait /\ ~isLandscape
          /\ ~state.isPortrait /\ ~state.isLandscape

\* C22: state().isTouchEnabled is true iff both interactivity checks say
\* browser and the environment reports a touch-start capability or a
\* positive maximum touch point count; it is false whenever either check
\* says the code does not run in a browser.
C22_TouchEnabled ==
    ~raised =>
        (state.isTouchEnabled <=>
            (isBrowser /\ cdkIsBrowser
                /\ (ontouchstart \/ maxTouchPoints > 0)))

\* a service constructed where the platform id says browser, the CDK says
\* not, and the window has touch events
C22_Witness ==
    /\ isBrowser
    /\ ~cdkIsBrowser
    /\ ~raised
    /\ ontouchstart
    /\ ~state.isTouchEnabled

C24_DeviceClasses ==
    (Interactive /\ Quiescent) =>
        /\ "mobile" \in classes <=> isMobile
        /\ "tablet" \in classes <=> isTablet
        /\ "desktop" \in classes <=> isDesktop
        /\ Cardinality(classes \cap DeviceClasses) = 1

\* C25: in an interactive environment, in every state, exactly one of
\* orientation-portrait and orientation-landscape is on the root element;
\* orientation-portrait is present iff isPortrait() and
\* orientation-landscape iff isLandscape().
C25_OrientationClasses ==
    Interactive =>
        /\ Cardinality(classes \cap OrientationClasses) = 1
        /\ "orientation-portrait" \in classes <=> isPortrait
        /\ "orientation-landscape" \in classes <=> isLandscape

\* C26: in every snapshot platform is desktop if isDesktop, else tablet if
\* isTablet, else mobile; and in an interactive environment the platform-*
\* class written at construction names the platform of the snapshot
\* produced at construction.
C26_PlatformDerivation ==
    /\ state.platform =
          (IF state.isDesktop THEN "desktop"
           ELSE IF state.isTablet THEN "tablet" ELSE "mobile")
    /\ (Interactive /\ last = NoStep) =>
          classes \cap PlatformClasses = {"platform-" \o state.platform}

\* a service constructed in the tablet band, before anything was delivered
C26_Witness ==
    /\ Interactive
    /\ last = NoStep
    /\ state.isTablet
    /\ state.platform = "tablet"
    /\ "platform-tablet" \in classes

\* C27: in every quiescent state of every environment the accessors agree
\* with the latest snapshot: isMobile() = state().isMobile, isTablet() =
\* state().isTablet, isDesktop() = state().isDesktop and
\* currentBreakpoint() = state().breakpoint.
C27_AccessorsAgree ==
    Quiescent =>
        /\ isMobile = state.isMobile
        /\ isTablet = state.isTablet
        /\ isDesktop = state.isDesktop
        /\ currentBreakpoint = state.breakpoint

\* C29: in every quiescent state the predicates form a chain, is2xl() =>
\* isXl() => isLg() => isMd() => isSm(), and currentBreakpoint() is the
\* largest breakpoint whose predicate is true, xs when none is.
C29_PredicateChain ==
    Quiescent =>
        /\ is2xl => isXl
        /\ isXl => isLg
        /\ isLg => isMd
        /\ isMd => isSm
        /\ currentBreakpoint =
              (IF is2xl THEN "2xl"
               ELSE IF isXl THEN "xl"
               ELSE IF isLg THEN "lg"
               ELSE IF isMd THEN "md"
               ELSE IF isSm THEN "sm"
               ELSE "xs")

\* a resize into the lg band has been delivered: isLg() holds, isXl() not
C29_Witness ==
    /\ Interactive
    /\ Quiescent
    /\ last.op = "deliver"
    /\ isSm /\ isMd /\ isLg
    /\ ~isXl /\ ~is2xl
    /\ currentBreakpoint = "lg"
    /\ events > 0

\* C28: a resize that stays inside one breakpoint band produces no new
\* snapshot and no class write: where every width is in the sm band,
\* currentBreakpoint() and state() keep their value in every step, and
\* only a rotation or a colour scheme change writes a class.
C28_InBandFrame ==
    [][/\ currentBreakpoint' = currentBreakpoint
       /\ state' = state
       /\ classes' \ (OrientationClasses \cup ColorSchemeClasses)
            = classes \ (OrientationClasses \cup ColorSchemeClasses)]_vars

\* exactly one class of each static group is on the root element
OneStaticEach ==
    /\ Cardinality(classes \cap PlatformClasses) = 1
    /\ Cardinality(classes \cap BrowserClasses) = 1
    /\ Cardinality(classes \cap OsClasses) = 1
    /\ Cardinality(classes \cap TouchClasses) = 1

\* C30: creating the service again on the same root element keeps the
\* class contract: after any sequence of constructions and resizes exactly
\* one platform-*, one browser-*, one os-* and one touch-* class is
\* present, and a second construction in an unchanged environment leaves
\* the class list unchanged.
C30_RecreateKeepsContract ==
    [][/\ (isBrowser /\ ~raised) => OneStaticEach'
       /\ (last'.op = "recreate" /\ events = 0) => classes' = classes]_vars

====
